---- MODULE Spec2Model ----
(***************************************************************************)
(* A model of llama-swap's GGUF auto-discovery: proxy/discovery (cache     *)
(* directory, scanner, metadata extraction, identity, binary locator) and  *)
(* proxy/config/autodiscovery.go (config synthesis and orchestration).     *)
(*                                                                         *)
(* Go strings are TLA+ strings; TLC evaluates Len, SubSeq and \o on them,  *)
(* so every string function below works character by character, as the    *)
(* Go code does on ASCII input.                                            *)
(***************************************************************************)
EXTENDS Integers, Sequences, FiniteSets, TLC

VARIABLES
    pc,           \* where the run is: the function about to execute
    env,          \* the process environment (GOOS, variables, working directory)
    calls,        \* the functions called so far, in call order
    loaded,       \* what LoadConfig returned: [cfg, err]
    ggufFiles,    \* DiscoverModels: the paths ScanCacheForGGUF returned
    scanErr,      \* DiscoverModels: the error ScanCacheForGGUF returned
    idx,          \* the index of the current loop (extraction, then synthesis)
    models,       \* the descriptors held by the running function
    failedFiles,  \* DiscoverModels: one "name: message" per failed file
    outcomes,     \* what each ExtractMetadata call returned: [meta, err]
    discovered,   \* what DiscoverModels returned: [models, err]
    located,      \* what FindLlamaServer returned: [path, err]
    usedIDs,      \* generateConfig: base ID -> count
    cfg,          \* generateConfig: the Config under construction
    ids,          \* generateConfig: the id of each iteration so far
    ret,          \* what the entry point returned: [cfg, err]
    arg,          \* a function called on its own: the argument handed to it
    rets,         \* the values returned by its successive applications
    disk          \* and the part of the file system it reads or writes

pipeVars == <<pc, env, calls, loaded, ggufFiles, scanErr, idx, models, failedFiles,
              outcomes, discovered, located, usedIDs, cfg, ids, ret>>

inferVars == <<arg, rets, disk>>

vars == <<pc, env, calls, loaded, ggufFiles, scanErr, idx, models, failedFiles,
          outcomes, discovered, located, usedIDs, cfg, ids, ret, arg, rets, disk>>

-----------------------------------------------------------------------------
(* Bounds of the model.                                                    *)

\* how many quantization tokens a sampled filename carries at most
MaxTokens == 2
\* how many times in succession a function is applied
MaxApply == 2
\* how many of the candidate paths exist on a disk the binary locator sees
MaxEntries == 2

-----------------------------------------------------------------------------
(* Go's strings package, as used by the discovery code.                    *)

CharAt(s, i) == SubSeq(s, i, i)

HasSuffix(s, suffix) ==
    /\ Len(s) >= Len(suffix)
    /\ SubSeq(s, Len(s) - Len(suffix) + 1, Len(s)) = suffix

HasPrefix(s, prefix) ==
    /\ Len(s) >= Len(prefix)
    /\ SubSeq(s, 1, Len(prefix)) = prefix

TrimSuffix(s, suffix) ==
    IF HasSuffix(s, suffix) THEN SubSeq(s, 1, Len(s) - Len(suffix)) ELSE s

Uppers == "ABCDEFGHIJKLMNOPQRSTUVWXYZ"
Lowers == "abcdefghijklmnopqrstuvwxyz"

\* the lower-case letter of each upper-case ASCII letter
UpperToLower ==
    [c \in {CharAt(Uppers, i) : i \in 1..Len(Uppers)} |->
        CharAt(Lowers, CHOOSE i \in 1..Len(Uppers) : CharAt(Uppers, i) = c)]

LowerChar(c) == IF c \in DOMAIN UpperToLower THEN UpperToLower[c] ELSE c

RECURSIVE ToLower(_)
ToLower(s) ==
    IF s = "" THEN ""
    ELSE LowerChar(CharAt(s, 1)) \o ToLower(SubSeq(s, 2, Len(s)))

RECURSIVE Join(_, _)
Join(parts, sep) ==
    IF parts = <<>> THEN ""
    ELSE IF Len(parts) = 1 THEN parts[1]
    ELSE parts[1] \o sep \o Join(Tail(parts), sep)

RECURSIVE ReplaceAll(_, _, _)
\* strings.ReplaceAll for a one-character old string
ReplaceAll(s, old, new) ==
    IF s = "" THEN ""
    ELSE (IF CharAt(s, 1) = old THEN new ELSE CharAt(s, 1))
         \o ReplaceAll(SubSeq(s, 2, Len(s)), old, new)

RECURSIVE TrimLeft(_, _)
TrimLeft(s, c) ==
    IF HasPrefix(s, c) /\ s # "" THEN TrimLeft(SubSeq(s, 2, Len(s)), c) ELSE s

RECURSIVE TrimRight(_, _)
TrimRight(s, c) ==
    IF HasSuffix(s, c) /\ s # "" THEN TrimRight(SubSeq(s, 1, Len(s) - 1), c) ELSE s

\* strings.Trim for a one-character cutset
Trim(s, c) == TrimRight(TrimLeft(s, c), c)

Digits == "0123456789"

RECURSIVE Itoa(_)
\* fmt.Sprintf("%d", n)
Itoa(n) ==
    IF n < 0 THEN "-" \o Itoa(0 - n)
    ELSE IF n < 10 THEN CharAt(Digits, n + 1)
    ELSE Itoa(n \div 10) \o CharAt(Digits, (n % 10) + 1)

\* a Go error value: nil, or its kind and its message.  os.IsNotExist holds
\* of the error the file system returns for a missing path, not of an error
\* built by fmt.Errorf, wrapped or not.
Nil == <<>>
Errorf(msg) == <<"error", msg>>
ErrNotExist(msg) == <<"ErrNotExist", msg>>
IsNotExist(err) == err # Nil /\ err[1] = "ErrNotExist"
ErrorText(err) == err[2]

-----------------------------------------------------------------------------
(* inferNameFromFilename, gguf.go.                                         *)

quantPatterns ==
    << "-Q4_K_M", "-Q4_K_S", "-Q4_0", "-Q4_1",
       "-Q5_K_M", "-Q5_K_S", "-Q5_0", "-Q5_1",
       "-Q6_K", "-Q8_0", "-F16", "-F32",
       "_Q4_K_M", "_Q4_K_S", "_Q4_0", "_Q4_1",
       "_Q5_K_M", "_Q5_K_S", "_Q5_0", "_Q5_1",
       "_Q6_K", "_Q8_0", "_F16", "_F32" >>

\* the two TrimSuffix calls that remove the extension
StripExtensionUnchecked(filename) ==
    SubSeq(filename, 1, Len(filename) - Len(".gguf"))

StripExtension(filename) ==
    TrimSuffix(TrimSuffix(filename, ".gguf"), ".GGUF")

\* the loop over quantPatterns, from pattern i on: every pattern is tried
\* once, in list order, on the name as the earlier patterns left it
RECURSIVE StripQuantFrom(_, _)
StripQuantFrom(name, i) ==
    IF i > Len(quantPatterns) THEN name
    ELSE StripQuantFrom(TrimSuffix(name, quantPatterns[i]), i + 1)

inferNameFromFilename(filename) ==
    StripQuantFrom(StripExtension(filename), 1)

-----------------------------------------------------------------------------
(* Go's path/filepath and os, as used by the discovery code.  goos is      *)
(* runtime.GOOS.  A Windows volume name is an ordinary first element: a    *)
(* path is absolute on Windows when it starts with a drive letter, a colon *)
(* and a separator; paths relative to a drive are not sampled.             *)

IsPathSeparator(goos, c) == c = "/" \/ (goos = "windows" /\ c = "\\")

Separator(goos) == IF goos = "windows" THEN "\\" ELSE "/"

\* the elements of path between separators, empty ones included
RECURSIVE SplitFrom(_, _, _, _, _)
SplitFrom(goos, path, i, cur, acc) ==
    IF i > Len(path) THEN Append(acc, cur)
    ELSE IF IsPathSeparator(goos, CharAt(path, i))
         THEN SplitFrom(goos, path, i + 1, "", Append(acc, cur))
         ELSE SplitFrom(goos, path, i + 1, cur \o CharAt(path, i), acc)

SplitPath(goos, path) == SplitFrom(goos, path, 1, "", <<>>)

\* filepath.Clean's pass over the elements: "" and "." are dropped, ".."
\* removes the element before it, or is kept at the start of a relative path
RECURSIVE CleanFrom(_, _, _, _)
CleanFrom(elems, i, rooted, stack) ==
    IF i > Len(elems) THEN stack
    ELSE LET e == elems[i] IN
         IF e = "" \/ e = "." THEN CleanFrom(elems, i + 1, rooted, stack)
         ELSE IF e = ".."
              THEN IF stack # <<>> /\ stack[Len(stack)] # ".."
                   THEN CleanFrom(elems, i + 1, rooted, SubSeq(stack, 1, Len(stack) - 1))
                   ELSE IF rooted
                        THEN CleanFrom(elems, i + 1, rooted, stack)
                        ELSE CleanFrom(elems, i + 1, rooted, Append(stack, e))
              ELSE CleanFrom(elems, i + 1, rooted, Append(stack, e))

Clean(goos, path) ==
    LET rooted == path # "" /\ IsPathSeparator(goos, CharAt(path, 1))
        stack  == CleanFrom(SplitPath(goos, path), 1, rooted, <<>>)
        out    == (IF rooted THEN Separator(goos) ELSE "")
                  \o Join(stack, Separator(goos))
    IN  IF out = "" THEN "." ELSE out

\* filepath.Join: the non-empty elements, joined and cleaned
JoinPath(goos, elems) ==
    LET kept == SelectSeq(elems, LAMBDA e : e # "")
    IN  IF kept = <<>> THEN "" ELSE Clean(goos, Join(kept, Separator(goos)))

RECURSIVE TrimSeparators(_, _)
TrimSeparators(goos, path) ==
    IF path # "" /\ IsPathSeparator(goos, CharAt(path, Len(path)))
    THEN TrimSeparators(goos, SubSeq(path, 1, Len(path) - 1))
    ELSE path

\* filepath.Base: the last element of path
Base(goos, path) ==
    IF path = "" THEN "."
    ELSE LET p     == TrimSeparators(goos, path)
             elems == SplitPath(goos, p)
         IN  IF p = "" THEN Separator(goos) ELSE elems[Len(elems)]

IsAbs(goos, path) ==
    IF goos = "windows"
    THEN /\ Len(path) >= 3
         /\ CharAt(path, 2) = ":"
         /\ IsPathSeparator(goos, CharAt(path, 3))
    ELSE path # "" /\ CharAt(path, 1) = "/"

\* filepath.Abs: cwd is os.Getwd's answer, "" when it fails
Abs(goos, cwd, path) ==
    IF IsAbs(goos, path) THEN [path |-> Clean(goos, path), err |-> Nil]
    ELSE IF cwd = "" THEN [path |-> "", err |-> Errorf("getwd: no such file or directory")]
    ELSE [path |-> JoinPath(goos, <<cwd, path>>), err |-> Nil]

-----------------------------------------------------------------------------
(* Identity: GenerateModelID, GenerateDisplayName, DeduplicateModels,      *)
(* config_gen.go.  A descriptor is a ModelMetadata record.                 *)

ModelMetadata(filePath, fileName) ==
    [FilePath |-> filePath, FileName |-> fileName, Architecture |-> "",
     Name |-> "", SizeLabel |-> "", ContextLength |-> 0,
     EmbeddingLength |-> 0, Finetune |-> ""]

IDChars == "abcdefghijklmnopqrstuvwxyz0123456789-."

IDCharSet == {CharAt(IDChars, i) : i \in 1..Len(IDChars)}

IsIDChar(c) == c \in IDCharSet

RECURSIVE sanitizeModelID(_)
sanitizeModelID(id) ==
    IF id = "" THEN ""
    ELSE (IF IsIDChar(CharAt(id, 1)) THEN CharAt(id, 1) ELSE "")
         \o sanitizeModelID(SubSeq(id, 2, Len(id)))

RECURSIVE CollapseHyphens(_)
\* regexp `-+` replaced by "-"
CollapseHyphens(id) ==
    IF Len(id) < 2 THEN id
    ELSE IF CharAt(id, 1) = "-" /\ CharAt(id, 2) = "-"
         THEN CollapseHyphens(SubSeq(id, 2, Len(id)))
         ELSE CharAt(id, 1) \o CollapseHyphens(SubSeq(id, 2, Len(id)))

\* the candidate list {Name, SizeLabel, Finetune}, empties skipped
NameParts(meta) ==
    SelectSeq(<<meta.Name, meta.SizeLabel, meta.Finetune>>, LAMBDA p : p # "")

\* the fallback taken from the inferred name instead of the bare filename
GenerateModelIDInferred(meta) ==
    LET parts == IF NameParts(meta) = <<>>
                 THEN <<inferNameFromFilename(meta.FileName)>>
                 ELSE NameParts(meta)
        id0 == ToLower(Join(parts, "-"))
        id1 == ReplaceAll(ReplaceAll(id0, " ", "-"), "_", "-")
    IN  Trim(CollapseHyphens(sanitizeModelID(id1)), "-")

GenerateModelID(meta) ==
    LET parts == IF NameParts(meta) = <<>>
                 THEN <<TrimSuffix(TrimSuffix(meta.FileName, ".gguf"), ".GGUF")>>
                 ELSE NameParts(meta)
        id0 == ToLower(Join(parts, "-"))
        id1 == ReplaceAll(ReplaceAll(id0, " ", "-"), "_", "-")
    IN  Trim(CollapseHyphens(sanitizeModelID(id1)), "-")

GenerateDisplayName(meta) ==
    IF NameParts(meta) = <<>>
    THEN inferNameFromFilename(meta.FileName)
    ELSE Join(NameParts(meta), " ")

\* the base identity key of a descriptor
BaseKey(model) == ToLower(inferNameFromFilename(model.FileName))

RECURSIVE DedupFrom(_, _, _, _)
DedupFrom(list, i, seen, result) ==
    IF i > Len(list) THEN result
    ELSE IF BaseKey(list[i]) \notin seen
         THEN DedupFrom(list, i + 1, seen \cup {BaseKey(list[i])},
                        Append(result, list[i]))
         ELSE DedupFrom(list, i + 1, seen, result)

DedupKeepLast(list) ==
    LET lastOfKey(i) == \A j \in (i + 1)..Len(list) :
                            BaseKey(list[j]) # BaseKey(list[i])
        F[i \in 0..Len(list)] ==
            IF i = 0 THEN <<>>
            ELSE IF lastOfKey(i) THEN Append(F[i - 1], list[i]) ELSE F[i - 1]
    IN  F[Len(list)]

DeduplicateModels(list) ==
    IF Len(list) <= 1 THEN list ELSE DedupFrom(list, 1, {}, <<>>)

-----------------------------------------------------------------------------
(* The process environment and the cache directory, cache.go.  The record  *)
(* e holds runtime.GOOS, the environment variables the code reads and the  *)
(* working directory; it does not change during a run.                     *)

\* os.UserHomeDir of the Go standard library: $HOME (%USERPROFILE% on
\* Windows) when it is set, an error otherwise
UserHomeDir(e) ==
    LET v == IF e.goos = "windows" THEN e.USERPROFILE ELSE e.HOME
    IN  IF v # "" THEN [dir |-> v, err |-> Nil]
        ELSE [dir |-> "", err |-> Errorf(IF e.goos = "windows"
                                          THEN "%userprofile% is not defined"
                                          ELSE "$HOME is not defined")]

\* a separator added to every path
ensureTrailingSlashAlways(goos, path) == path \o Separator(goos)

\* the path returned as it is
ensureTrailingSlashSkipped(goos, path) == path

ensureTrailingSlash(goos, path) ==
    IF path # "" /\ ~IsPathSeparator(goos, CharAt(path, Len(path)))
    THEN path \o Separator(goos)
    ELSE path

UnixLike == {"linux", "freebsd", "openbsd", "aix"}

GetCacheDirectory(e) ==
    LET g == e.goos IN
    IF e.LLAMA_CACHE # ""
    THEN [path |-> ensureTrailingSlash(g, e.LLAMA_CACHE), err |-> Nil]
    ELSE IF g \in UnixLike
    THEN IF e.XDG_CACHE_HOME # ""
         THEN [path |-> ensureTrailingSlash(g,
                          JoinPath(g, <<e.XDG_CACHE_HOME, "llama.cpp">>)),
               err |-> Nil]
         ELSE IF e.HOME # ""
         THEN [path |-> ensureTrailingSlash(g,
                          JoinPath(g, <<JoinPath(g, <<e.HOME, ".cache">>), "llama.cpp">>)),
               err |-> Nil]
         ELSE IF UserHomeDir(e).err # Nil
         THEN [path |-> "",
               err |-> Errorf("failed to find HOME directory: "
                              \o ErrorText(UserHomeDir(e).err))]
         ELSE [path |-> ensureTrailingSlash(g,
                          JoinPath(g, <<JoinPath(g, <<UserHomeDir(e).dir, ".cache">>),
                                        "llama.cpp">>)),
               err |-> Nil]
    ELSE IF g = "darwin"
    THEN IF e.HOME = "" /\ UserHomeDir(e).err # Nil
         THEN [path |-> "",
               err |-> Errorf("failed to find HOME directory: "
                              \o ErrorText(UserHomeDir(e).err))]
         ELSE [path |-> ensureTrailingSlash(g,
                          JoinPath(g, <<IF e.HOME = "" THEN UserHomeDir(e).dir
                                        ELSE e.HOME,
                                        "Library", "Caches", "llama.cpp">>)),
               err |-> Nil]
    ELSE IF g = "windows"
    THEN IF e.LOCALAPPDATA = ""
         THEN [path |-> "", err |-> Errorf("LOCALAPPDATA environment variable not set")]
         ELSE [path |-> ensureTrailingSlash(g,
                          JoinPath(g, <<e.LOCALAPPDATA, "llama.cpp">>)),
               err |-> Nil]
    ELSE [path |-> "", err |-> Errorf("unsupported platform: " \o g)]

-----------------------------------------------------------------------------
(* ScanCacheForGGUF, gguf.go.  dir is what the file system holds at the    *)
(* cache path: kind is "missing", "denied" (os.Stat fails otherwise),      *)
(* "file" or "dir"; readable tells whether os.ReadDir succeeds; entries    *)
(* are the directory's entries as os.ReadDir returns them, sorted by name. *)

\* the extension compared as it is spelled
RECURSIVE ScanEntriesCaseSensitive(_, _, _, _)
ScanEntriesCaseSensitive(goos, cacheDir, entries, i) ==
    IF i > Len(entries) THEN <<>>
    ELSE IF ~entries[i].isDir /\ HasSuffix(entries[i].name, ".gguf")
         THEN <<JoinPath(goos, <<cacheDir, entries[i].name>>)>>
              \o ScanEntriesCaseSensitive(goos, cacheDir, entries, i + 1)
         ELSE ScanEntriesCaseSensitive(goos, cacheDir, entries, i + 1)

RECURSIVE ScanEntries(_, _, _, _)
ScanEntries(goos, cacheDir, entries, i) ==
    IF i > Len(entries) THEN <<>>
    ELSE IF ~entries[i].isDir /\ HasSuffix(ToLower(entries[i].name), ".gguf")
         THEN <<JoinPath(goos, <<cacheDir, entries[i].name>>)>>
              \o ScanEntries(goos, cacheDir, entries, i + 1)
         ELSE ScanEntries(goos, cacheDir, entries, i + 1)

\* every os.Stat error reported, a missing directory included
ScanCacheForGGUFMissingFails(e, dir) ==
    LET c        == GetCacheDirectory(e)
        cacheDir == Clean(e.goos, c.path)
    IN  IF c.err # Nil
        THEN [files |-> <<>>,
              err |-> Errorf("failed to get cache directory: " \o ErrorText(c.err))]
        ELSE IF dir.kind = "missing"
        THEN [files |-> <<>>,
              err |-> Errorf("failed to stat cache directory: no such file or directory")]
        ELSE IF dir.kind = "denied"
        THEN [files |-> <<>>,
              err |-> Errorf("failed to stat cache directory: permission denied")]
        ELSE IF dir.kind # "dir"
        THEN [files |-> <<>>,
              err |-> Errorf("cache path is not a directory: " \o cacheDir)]
        ELSE IF ~dir.readable
        THEN [files |-> <<>>,
              err |-> Errorf("failed to read cache directory: permission denied")]
        ELSE [files |-> ScanEntries(e.goos, cacheDir, dir.entries, 1), err |-> Nil]

ScanCacheForGGUF(e, dir) ==
    LET c        == GetCacheDirectory(e)
        cacheDir == Clean(e.goos, c.path)
    IN  IF c.err # Nil
        THEN [files |-> <<>>,
              err |-> Errorf("failed to get cache directory: " \o ErrorText(c.err))]
        ELSE IF dir.kind = "missing" THEN [files |-> <<>>, err |-> Nil]
        ELSE IF dir.kind = "denied"
        THEN [files |-> <<>>,
              err |-> Errorf("failed to stat cache directory: permission denied")]
        ELSE IF dir.kind # "dir"
        THEN [files |-> <<>>,
              err |-> Errorf("cache path is not a directory: " \o cacheDir)]
        ELSE IF ~dir.readable
        THEN [files |-> <<>>,
              err |-> Errorf("failed to read cache directory: permission denied")]
        ELSE [files |-> ScanEntries(e.goos, cacheDir, dir.entries, 1), err |-> Nil]

-----------------------------------------------------------------------------
(* ExtractMetadata, gguf.go.  content is what the GGUF library finds in    *)
(* the file: whether it opens, and its key/value metadata, each value with *)
(* its type.                                                               *)

\* gguf Metadata.String: the value of a key that is present with type string
MetaString(kv, key) ==
    IF key \in DOMAIN kv /\ kv[key].typ = "string"
    THEN [val |-> kv[key].val, err |-> Nil]
    ELSE [val |-> "", err |-> Errorf("key not found: " \o key)]

\* gguf Metadata.Int: the value of a key that is present with an integer type
MetaInt(kv, key) ==
    IF key \in DOMAIN kv /\ kv[key].typ = "int"
    THEN [val |-> kv[key].val, err |-> Nil]
    ELSE [val |-> 0, err |-> Errorf("key not found: " \o key)]

OptString(kv, key) == IF MetaString(kv, key).err = Nil THEN MetaString(kv, key).val ELSE ""

OptInt(kv, key) == IF MetaInt(kv, key).err = Nil THEN MetaInt(kv, key).val ELSE 0

\* a failed lookup of the context length ends the extraction
ExtractMetadataStrictContext(goos, path, content) ==
    LET kv   == content.kv
        arch == MetaString(kv, "general.architecture")
        name == OptString(kv, "general.name")
        ctx  == MetaInt(kv, arch.val \o ".context_length")
        fileName == Base(goos, path)
    IN  IF ~content.opens
        THEN [meta |-> ModelMetadata("", ""),
              err |-> Errorf("failed to open GGUF file: invalid magic")]
        ELSE IF arch.err # Nil
        THEN [meta |-> ModelMetadata("", ""),
              err |-> Errorf("missing general.architecture: " \o ErrorText(arch.err))]
        ELSE IF ctx.err # Nil
        THEN [meta |-> ModelMetadata("", ""),
              err |-> Errorf("missing context length: " \o ErrorText(ctx.err))]
        ELSE [meta |->
                [FilePath |-> path,
                 FileName |-> fileName,
                 Architecture |-> arch.val,
                 Name |-> IF name = "" THEN inferNameFromFilename(fileName) ELSE name,
                 SizeLabel |-> OptString(kv, "general.size_label"),
                 ContextLength |-> ctx.val,
                 EmbeddingLength |-> OptInt(kv, arch.val \o ".embedding_length"),
                 Finetune |-> OptString(kv, "general.finetune")],
              err |-> Nil]

ExtractMetadata(goos, path, content) ==
    LET kv   == content.kv
        arch == MetaString(kv, "general.architecture")
        name == OptString(kv, "general.name")
        fileName == Base(goos, path)
    IN  IF ~content.opens
        THEN [meta |-> ModelMetadata("", ""),
              err |-> Errorf("failed to open GGUF file: invalid magic")]
        ELSE IF arch.err # Nil
        THEN [meta |-> ModelMetadata("", ""),
              err |-> Errorf("missing general.architecture: " \o ErrorText(arch.err))]
        ELSE [meta |->
                [FilePath |-> path,
                 FileName |-> fileName,
                 Architecture |-> arch.val,
                 Name |-> IF name = "" THEN inferNameFromFilename(fileName) ELSE name,
                 SizeLabel |-> OptString(kv, "general.size_label"),
                 ContextLength |-> OptInt(kv, arch.val \o ".context_length"),
                 EmbeddingLength |-> OptInt(kv, arch.val \o ".embedding_length"),
                 Finetune |-> OptString(kv, "general.finetune")],
              err |-> Nil]

-----------------------------------------------------------------------------
(* FindLlamaServer and getCommonServerLocations, binary.go (in src/ at the *)
(* end of config_gen_test.go).  fsys is the file system as the locator     *)
(* sees it: kinds maps the paths that exist to "file" or "dir", lookPath   *)
(* is exec.LookPath's answer for the binary name, "" when it finds none.   *)

Stat(fsys, path) == IF path \in DOMAIN fsys.kinds THEN fsys.kinds[path] ELSE "missing"

getCommonServerLocations(e) ==
    LET g       == e.goos
        homeDir == UserHomeDir(e).dir
    IN  <<"/usr/local/bin", "/usr/bin", "/opt/llama.cpp/bin">>
        \o (IF homeDir # ""
            THEN <<JoinPath(g, <<homeDir, "llama.cpp", "build", "bin">>),
                   JoinPath(g, <<homeDir, ".local", "bin">>),
                   JoinPath(g, <<homeDir, "bin">>)>>
            ELSE <<>>)
        \o (IF g = "darwin"
            THEN <<"/opt/homebrew/bin", "/usr/local/opt/llama.cpp/bin">>
            ELSE IF g = "windows" /\ e.ProgramFiles # ""
            THEN <<JoinPath(g, <<e.ProgramFiles, "llama.cpp", "bin">>)>>
            ELSE <<>>)

AbsOrError(e, path) ==
    LET a == Abs(e.goos, e.cwd, path)
    IN  IF a.err # Nil
        THEN [path |-> "",
              err |-> Errorf("failed to get absolute path: " \o ErrorText(a.err))]
        ELSE [path |-> a.path, err |-> Nil]

\* the loop taking the first location that holds any entry of that name
RECURSIVE FindInLocationsAnyEntry(_, _, _, _, _)
FindInLocationsAnyEntry(e, fsys, binaryName, locations, i) ==
    IF i > Len(locations)
    THEN [path |-> "",
          err |-> Errorf("llama-server not found (checked PATH and common locations)")]
    ELSE LET fullPath == JoinPath(e.goos, <<locations[i], binaryName>>)
         IN  IF Stat(fsys, fullPath) # "missing"
             THEN AbsOrError(e, fullPath)
             ELSE FindInLocationsAnyEntry(e, fsys, binaryName, locations, i + 1)

\* the loop over the common locations, from location i on
RECURSIVE FindInLocations(_, _, _, _, _)
FindInLocations(e, fsys, binaryName, locations, i) ==
    IF i > Len(locations)
    THEN [path |-> "",
          err |-> Errorf("llama-server not found (checked PATH and common locations)")]
    ELSE LET fullPath == JoinPath(e.goos, <<locations[i], binaryName>>)
         IN  IF Stat(fsys, fullPath) = "file"
             THEN AbsOrError(e, fullPath)
             ELSE FindInLocations(e, fsys, binaryName, locations, i + 1)

\* a missing override falls through to PATH and the common locations
FindLlamaServerFallThrough(e, fsys) ==
    LET serverPath == e.LLAMA_SERVER_PATH
        binaryName == IF e.goos = "windows" THEN "llama-server.exe" ELSE "llama-server"
    IN  IF serverPath # "" /\ Stat(fsys, serverPath) = "dir"
        THEN [path |-> "",
              err |-> Errorf("LLAMA_SERVER_PATH points to a directory: " \o serverPath)]
        ELSE IF serverPath # "" /\ Stat(fsys, serverPath) = "file"
        THEN AbsOrError(e, serverPath)
        ELSE IF fsys.lookPath # ""
        THEN AbsOrError(e, fsys.lookPath)
        ELSE FindInLocations(e, fsys, binaryName, getCommonServerLocations(e), 1)

FindLlamaServer(e, fsys) ==
    LET serverPath == e.LLAMA_SERVER_PATH
        binaryName == IF e.goos = "windows" THEN "llama-server.exe" ELSE "llama-server"
    IN  IF serverPath # ""
        THEN IF Stat(fsys, serverPath) = "dir"
             THEN [path |-> "",
                   err |-> Errorf("LLAMA_SERVER_PATH points to a directory: " \o serverPath)]
             ELSE IF Stat(fsys, serverPath) = "file"
             THEN AbsOrError(e, serverPath)
             ELSE [path |-> "",
                   err |-> Errorf("LLAMA_SERVER_PATH file not found: " \o serverPath)]
        ELSE IF fsys.lookPath # ""
        THEN AbsOrError(e, fsys.lookPath)
        ELSE FindInLocations(e, fsys, binaryName, getCommonServerLocations(e), 1)

-----------------------------------------------------------------------------
(* Config synthesis, proxy/config/autodiscovery.go (src/unnamed/part_000). *)

HealthCheckTimeout == 120
StartPort == 5800
MetricsMaxInMemory == 1000

EmptyModels == [id \in {} |-> ""]

\* Config{}: the zero value returned beside every error
ZeroConfig ==
    [HealthCheckTimeout |-> 0, StartPort |-> 0, LogLevel |-> "",
     MetricsMaxInMemory |-> 0, Models |-> EmptyModels]

DefaultConfig ==
    [HealthCheckTimeout |-> HealthCheckTimeout, StartPort |-> StartPort,
     LogLevel |-> "info", MetricsMaxInMemory |-> MetricsMaxInMemory,
     Models |-> EmptyModels]

\* the context-size flag added for every context length but zero
generateModelConfigNonZero(meta, path) ==
    IF path = ""
    THEN [config |-> [Cmd |-> "", Name |-> "", Description |-> ""],
          err |-> Errorf("server path cannot be empty")]
    ELSE LET cmdParts ==
                 <<path, "--model", meta.FilePath, "--port", "${PORT}">>
                 \o (IF meta.ContextLength # 0
                     THEN <<"--ctx-size", Itoa(meta.ContextLength)>>
                     ELSE <<>>)
             desc == IF meta.SizeLabel # ""
                     THEN "Auto-discovered " \o meta.Architecture \o " "
                          \o meta.SizeLabel \o " model"
                     ELSE "Auto-discovered " \o meta.Architecture \o " model"
         IN  [config |-> [Cmd |-> Join(cmdParts, " "),
                          Name |-> GenerateDisplayName(meta),
                          Description |-> desc],
              err |-> Nil]

generateModelConfig(meta, path) ==
    IF path = ""
    THEN [config |-> [Cmd |-> "", Name |-> "", Description |-> ""],
          err |-> Errorf("server path cannot be empty")]
    ELSE LET cmdParts ==
                 <<path, "--model", meta.FilePath, "--port", "${PORT}">>
                 \o (IF meta.ContextLength > 0
                     THEN <<"--ctx-size", Itoa(meta.ContextLength)>>
                     ELSE <<>>)
             desc == IF meta.SizeLabel # ""
                     THEN "Auto-discovered " \o meta.Architecture \o " "
                          \o meta.SizeLabel \o " model"
                     ELSE "Auto-discovered " \o meta.Architecture \o " model"
         IN  [config |-> [Cmd |-> Join(cmdParts, " "),
                          Name |-> GenerateDisplayName(meta),
                          Description |-> desc],
              err |-> Nil]

\* cfg.Models[id] = modelConfig
PutModel(modelsMap, id, modelConfig) ==
    [k \in DOMAIN modelsMap \cup {id} |->
        IF k = id THEN modelConfig ELSE modelsMap[k]]

\* the ID one iteration of generateConfig's loop assigns to a descriptor
\* whose base ID is baseID, given the counts in usedIDs
AssignIDNoSuffix(used, baseID) == baseID

AssignID(used, baseID) ==
    IF baseID \in DOMAIN used
    THEN baseID \o "-" \o Itoa(used[baseID] + 1)
    ELSE baseID

\* usedIDs after that iteration
CountID(used, baseID) ==
    [k \in DOMAIN used \cup {baseID} |->
        IF k = baseID
        THEN (IF baseID \in DOMAIN used THEN used[baseID] + 1 ELSE 0)
        ELSE used[k]]

-----------------------------------------------------------------------------
(* The inputs of a run: environments, what LoadConfig returns, what the    *)
(* cache path holds, what each GGUF file contains, what the binary locator *)
(* finds on disk.                                                          *)

BaseEnv ==
    [goos |-> "linux", LLAMA_CACHE |-> "", XDG_CACHE_HOME |-> "",
     HOME |-> "/home/u", USERPROFILE |-> "", LOCALAPPDATA |-> "",
     LLAMA_SERVER_PATH |-> "", ProgramFiles |-> "", cwd |-> "/home/u"]

SampleEnvs ==
    { [BaseEnv EXCEPT !.LLAMA_CACHE = "/data/models",
                      !.LLAMA_SERVER_PATH = "/opt/llama/llama-server"],
      [BaseEnv EXCEPT !.goos = "darwin", !.HOME = "/Users/u",
                      !.cwd = "/Users/u/llama.cpp"],
      [BaseEnv EXCEPT !.goos = "windows", !.HOME = "",
                      !.USERPROFILE = "C:\\Users\\u", !.cwd = "C:\\Users\\u"] }

UserModel == [Cmd |-> "echo test --port ${PORT}", Name |-> "", Description |-> ""]

SampleLoads ==
    { [cfg |-> ZeroConfig,
       err |-> ErrNotExist("open config.yaml: no such file or directory")],
      [cfg |-> ZeroConfig,
       err |-> Errorf("yaml: line 3: mapping values are not allowed in this context")],
      [cfg |-> [DefaultConfig EXCEPT !.StartPort = 6000], err |-> Nil],
      [cfg |-> [DefaultConfig EXCEPT !.Models = PutModel(EmptyModels, "test-model", UserModel)],
       err |-> Nil] }

\* the entries the cache directory may hold, in os.ReadDir's order (by name)
CacheEntries ==
    << [name |-> "README.md", isDir |-> FALSE],
       [name |-> "llama-Q4_K_M.gguf", isDir |-> FALSE],
       [name |-> "llama-Q8_0.gguf", isDir |-> FALSE],
       [name |-> "model.GGUF", isDir |-> FALSE],
       [name |-> "old.gguf", isDir |-> TRUE],
       [name |-> "phi-2.gguf", isDir |-> FALSE] >>

\* the subsequence of seq at the indices in S
Pick(seq, S) ==
    LET F[i \in 0..Len(seq)] ==
            IF i = 0 THEN <<>>
            ELSE IF i \in S THEN Append(F[i - 1], seq[i]) ELSE F[i - 1]
    IN  F[Len(seq)]

SampleDirs ==
    { [kind |-> k, readable |-> FALSE, entries |-> <<>>] :
        k \in {"missing", "denied", "file", "dir"} }
    \cup { [kind |-> "dir", readable |-> TRUE, entries |-> Pick(CacheEntries, S)] :
             S \in SUBSET (1..Len(CacheEntries)) }

Str(v) == [typ |-> "string", val |-> v]
Num(n) == [typ |-> "int", val |-> n]

NoMetadata == [k \in {} |-> Str("")]

SampleContents ==
    { [opens |-> FALSE, kv |-> NoMetadata],
      [opens |-> TRUE, kv |-> ("general.name" :> Str("orphan"))],
      [opens |-> TRUE,
       kv |-> ("general.architecture" :> Str("phi2") @@ "general.name" :> Str("phi")
               @@ "phi2.context_length" :> Num(2048))],
      [opens |-> TRUE,
       kv |-> ("general.architecture" :> Str("phi") @@ "general.name" :> Str("phi-1")
               @@ "general.size_label" :> Num(1))],
      [opens |-> TRUE,
       kv |-> ("general.architecture" :> Str("llama")
               @@ "llama.context_length" :> Str("8192")
               @@ "llama.embedding_length" :> Num(4096))] }

SampleFsys ==
    { [lookPath |-> "", kinds |-> [p \in {} |-> ""]],
      [lookPath |-> "", kinds |-> ("/opt/llama/llama-server" :> "file")],
      [lookPath |-> "", kinds |-> ("/opt/llama/llama-server" :> "dir")],
      [lookPath |-> "bin/llama-server", kinds |-> ("/usr/bin/llama-server" :> "file")],
      [lookPath |-> "",
       kinds |-> ("/usr/local/bin/llama-server" :> "dir"
                  @@ "/Users/u/bin/llama-server" :> "file"
                  @@ "/opt/homebrew/bin/llama-server" :> "file")] }

\* what FindLlamaServer can return in each environment, over the sampled disks
ServerFound ==
    [e \in SampleEnvs |-> {FindLlamaServer(e, fsys) : fsys \in SampleFsys}]

-----------------------------------------------------------------------------
(* The run: LoadConfigOrDiscover and AutoDiscoverConfig (part_000),        *)
(* DiscoverModels (gguf.go), one action per call or loop iteration.        *)

NoResult == [cfg |-> ZeroConfig, err |-> Nil]

\* the run itself keeps no file system: each call draws what it finds on disk
NoDisk == <<>>

\* every variable of the run at its value before anything executed
PipeIdle(entry, e) ==
    /\ pc = entry
    /\ env = e
    /\ calls = <<>>
    /\ loaded = NoResult
    /\ ggufFiles = <<>>
    /\ scanErr = Nil
    /\ idx = 0
    /\ models = <<>>
    /\ failedFiles = <<>>
    /\ outcomes = <<>>
    /\ discovered = [models |-> <<>>, err |-> Nil]
    /\ located = [path |-> "", err |-> Nil]
    /\ usedIDs = [id \in {} |-> 0]
    /\ cfg = ZeroConfig
    /\ ids = <<>>
    /\ ret = NoResult

\* both exported entry points
Init ==
    /\ \E entry \in {"LoadConfigOrDiscover", "AutoDiscoverConfig"}, e \in SampleEnvs :
           PipeIdle(entry, e)
    /\ arg = ""
    /\ rets = <<>>
    /\ disk = NoDisk

Return(c, e) ==
    /\ ret' = [cfg |-> c, err |-> e]
    /\ pc' = "done"

LoadConfigOrDiscoverAnyError ==
    /\ pc = "LoadConfigOrDiscover"
    /\ \E out \in SampleLoads :
         /\ loaded' = out
         /\ calls' = Append(calls, "LoadConfig")
         /\ IF out.err # Nil \/ Cardinality(DOMAIN out.cfg.Models) = 0
            THEN pc' = "AutoDiscoverConfig" /\ ret' = ret
            ELSE Return(out.cfg, Nil)
    /\ UNCHANGED <<env, ggufFiles, scanErr, idx, models, failedFiles, outcomes,
                   discovered, located, usedIDs, cfg, ids, inferVars>>

\* part_000:98-121
LoadConfigOrDiscover ==
    /\ pc = "LoadConfigOrDiscover"
    /\ \E out \in SampleLoads :
         /\ loaded' = out
         /\ calls' = Append(calls, "LoadConfig")
         /\ IF IsNotExist(out.err)
            THEN pc' = "AutoDiscoverConfig" /\ ret' = ret
            ELSE IF out.err # Nil
            THEN Return(ZeroConfig, out.err)
            ELSE IF Cardinality(DOMAIN out.cfg.Models) = 0
            THEN pc' = "AutoDiscoverConfig" /\ ret' = ret
            ELSE Return(out.cfg, Nil)
    /\ UNCHANGED <<env, ggufFiles, scanErr, idx, models, failedFiles, outcomes,
                   discovered, located, usedIDs, cfg, ids, inferVars>>

\* part_000:127 calling gguf.go:147-155: AutoDiscoverConfig enters
\* DiscoverModels, which scans the cache
Discover ==
    /\ pc = "AutoDiscoverConfig"
    /\ \E dir \in SampleDirs :
         LET r == ScanCacheForGGUF(env, dir) IN
         /\ calls' = calls \o <<"AutoDiscoverConfig", "DiscoverModels">>
         /\ ggufFiles' = r.files
         /\ scanErr' = r.err
         /\ IF r.err # Nil \/ Len(r.files) = 0
            THEN /\ discovered' = [models |-> <<>>, err |-> r.err]
                 /\ pc' = "discovered"
                 /\ idx' = idx
            ELSE /\ discovered' = discovered
                 /\ pc' = "extract"
                 /\ idx' = 1
    /\ UNCHANGED <<env, loaded, models, failedFiles, outcomes, located, usedIDs,
                   cfg, ids, ret, inferVars>>

\* gguf.go:160-168: one iteration of DiscoverModels' loop
Extract ==
    /\ pc = "extract"
    /\ idx <= Len(ggufFiles)
    /\ \E content \in SampleContents :
         LET filePath == ggufFiles[idx]
             r == ExtractMetadata(env.goos, filePath, content)
         IN  /\ outcomes' = Append(outcomes, r)
             /\ IF r.err # Nil
                THEN /\ failedFiles' = Append(failedFiles,
                            Base(env.goos, filePath) \o ": " \o ErrorText(r.err))
                     /\ models' = models
                ELSE /\ models' = Append(models, r.meta)
                     /\ failedFiles' = failedFiles
    /\ idx' = idx + 1
    /\ UNCHANGED <<pc, env, calls, loaded, ggufFiles, scanErr, discovered, located,
                   usedIDs, cfg, ids, ret, inferVars>>

DiscoverResultFailFast(found, failed) ==
    IF Len(failed) > 0
    THEN [models |-> <<>>,
          err |-> Errorf("failed to parse any GGUF files: " \o Join(failed, "; "))]
    ELSE [models |-> found, err |-> Nil]

DiscoverResultDropAll(found, failed) == [models |-> found, err |-> Nil]

\* gguf.go:170-181: what DiscoverModels returns after its loop
DiscoverResult(found, failed) ==
    IF Len(found) > 0 /\ Len(failed) > 0
    THEN [models |-> found, err |-> Nil]
    ELSE IF Len(failed) > 0
    THEN [models |-> <<>>,
          err |-> Errorf("failed to parse any GGUF files: " \o Join(failed, "; "))]
    ELSE [models |-> found, err |-> Nil]

DiscoverReturn ==
    /\ pc = "extract"
    /\ idx > Len(ggufFiles)
    /\ discovered' = DiscoverResult(models, failedFiles)
    /\ pc' = "discovered"
    /\ UNCHANGED <<env, calls, loaded, ggufFiles, scanErr, idx, models, failedFiles,
                   outcomes, located, usedIDs, cfg, ids, ret, inferVars>>

AfterDiscoverNoEmptyCheck ==
    /\ pc = "discovered"
    /\ IF discovered.err # Nil
       THEN /\ Return(ZeroConfig,
                      Errorf("failed to discover models: " \o ErrorText(discovered.err)))
            /\ UNCHANGED <<models, calls>>
       ELSE /\ models' = DeduplicateModels(discovered.models)
            /\ calls' = Append(calls, "DeduplicateModels")
            /\ pc' = "FindLlamaServer"
            /\ ret' = ret
    /\ UNCHANGED <<env, loaded, ggufFiles, scanErr, idx, failedFiles, outcomes,
                   discovered, located, usedIDs, cfg, ids, inferVars>>

\* part_000:128-142: AutoDiscoverConfig checks what DiscoverModels returned
\* and deduplicates
AfterDiscover ==
    /\ pc = "discovered"
    /\ IF discovered.err # Nil
       THEN /\ Return(ZeroConfig,
                      Errorf("failed to discover models: " \o ErrorText(discovered.err)))
            /\ UNCHANGED <<models, calls>>
       ELSE IF Len(discovered.models) = 0
       THEN /\ Return(ZeroConfig,
                      Errorf("no GGUF models found in llama.cpp cache directory"))
            /\ UNCHANGED <<models, calls>>
       ELSE /\ models' = DeduplicateModels(discovered.models)
            /\ calls' = Append(calls, "DeduplicateModels")
            /\ pc' = "FindLlamaServer"
            /\ ret' = ret
    /\ UNCHANGED <<env, loaded, ggufFiles, scanErr, idx, failedFiles, outcomes,
                   discovered, located, usedIDs, cfg, ids, inferVars>>

\* part_000:144-151
Locate ==
    /\ pc = "FindLlamaServer"
    /\ \E r \in ServerFound[env] :
         /\ located' = r
         /\ calls' = Append(calls, "FindLlamaServer")
         /\ IF r.err # Nil
            THEN Return(ZeroConfig,
                        Errorf("failed to find llama-server: " \o ErrorText(r.err)
                               \o " (set LLAMA_SERVER_PATH environment variable or ensure llama-server is in PATH)"))
            ELSE pc' = "generateConfig" /\ ret' = ret
    /\ UNCHANGED <<env, loaded, ggufFiles, scanErr, idx, models, failedFiles, outcomes,
                   discovered, usedIDs, cfg, ids, inferVars>>

\* part_000:154 calling part_000:49-68: generateConfig's checks and defaults
GenerateStart ==
    /\ pc = "generateConfig"
    /\ calls' = Append(calls, "generateConfig")
    /\ IF Len(models) = 0
       THEN /\ Return(ZeroConfig, Errorf("failed to generate config: no models provided"))
            /\ UNCHANGED <<cfg, usedIDs, idx, ids>>
       ELSE IF located.path = ""
       THEN /\ Return(ZeroConfig,
                      Errorf("failed to generate config: server path cannot be empty"))
            /\ UNCHANGED <<cfg, usedIDs, idx, ids>>
       ELSE /\ cfg' = DefaultConfig
            /\ usedIDs' = [id \in {} |-> 0]
            /\ ids' = <<>>
            /\ idx' = 1
            /\ pc' = "generateLoop"
            /\ ret' = ret
    /\ UNCHANGED <<env, loaded, ggufFiles, scanErr, models, failedFiles, outcomes,
                   discovered, located, inferVars>>

\* part_000:70-90: one iteration of generateConfig's loop
GenerateStep ==
    /\ pc = "generateLoop"
    /\ idx <= Len(models)
    /\ LET meta   == models[idx]
           baseID == GenerateModelID(meta)
           id     == AssignID(usedIDs, baseID)
           mc     == generateModelConfig(meta, located.path)
       IN  /\ usedIDs' = CountID(usedIDs, baseID)
           /\ ids' = Append(ids, id)
           /\ IF mc.err # Nil
              THEN /\ Return(ZeroConfig,
                             Errorf("failed to generate config: failed to generate config for "
                                    \o id \o ": " \o ErrorText(mc.err)))
                   /\ UNCHANGED <<cfg, idx>>
              ELSE /\ cfg' = [cfg EXCEPT !.Models = PutModel(@, id, mc.config)]
                   /\ idx' = idx + 1
                   /\ UNCHANGED <<pc, ret>>
    /\ UNCHANGED <<env, calls, loaded, ggufFiles, scanErr, models, failedFiles,
                   outcomes, discovered, located, inferVars>>

\* part_000:92 and 155-171: generateConfig returns, AutoDiscoverConfig returns
GenerateReturn ==
    /\ pc = "generateLoop"
    /\ idx > Len(models)
    /\ Return(cfg, Nil)
    /\ UNCHANGED <<env, calls, loaded, ggufFiles, scanErr, idx, models, failedFiles,
                   outcomes, discovered, located, usedIDs, cfg, ids, inferVars>>

Next ==
    \/ LoadConfigOrDiscover
    \/ Discover
    \/ Extract
    \/ DiscoverReturn
    \/ AfterDiscover
    \/ Locate
    \/ GenerateStart
    \/ GenerateStep
    \/ GenerateReturn

Spec == Init /\ [][Next]_vars

-----------------------------------------------------------------------------
(* Filenames the pure-function specifications draw their inputs from: a    *)
(* base name, up to MaxTokens tokens, an extension.                        *)

SampleBases == {"model", "m-7b"}

\* recognized tokens in both delimiters, and two the code does not know
SampleTokens == {"-Q4_K_M", "-Q5_K_S", "_Q8_0", "-F16", "-q4_k_m", "-IQ2"}

\* ".Gguf" is accepted by the scanner; ".bin" and "" are not
SampleExts == {".gguf", ".GGUF", ".Gguf", ".bin", ""}

RECURSIVE TokenTails(_)
TokenTails(n) ==
    IF n = 0 THEN {""}
    ELSE LET shorter == TokenTails(n - 1)
         IN  shorter \cup {t \o u : t \in shorter, u \in SampleTokens}

SampleFileNames ==
    {b \o t \o e : b \in SampleBases, t \in TokenTails(MaxTokens), e \in SampleExts}

-----------------------------------------------------------------------------
(* SpecInfer: inferNameFromFilename applied, then applied again to its own *)
(* result.                                                                 *)

InitInfer ==
    /\ arg \in SampleFileNames
    /\ rets = <<>>
    /\ disk = NoDisk
    /\ PipeIdle("idle", BaseEnv)

InferName ==
    /\ Len(rets) < MaxApply
    /\ rets' = Append(rets,
                 inferNameFromFilename(IF rets = <<>> THEN arg ELSE rets[Len(rets)]))
    /\ UNCHANGED <<arg, disk, pipeVars>>

NextInfer == InferName

SpecInfer == InitInfer /\ [][NextInfer]_vars

-----------------------------------------------------------------------------
(* SpecIdentity: GenerateModelID and GenerateDisplayName called on a       *)
(* descriptor, MaxApply times on the same descriptor.                      *)

SampleNames == {"", "Phi Two", "LLaMA 3.1", "Model--Name", "!!!"}

SampleSizeLabels == {"", "8B", "_"}

SampleFinetunes == {"", "Instruct"}

SampleIdentityFiles == {"custom-model-Q4_K_M.gguf", "model.GGUF", ".gguf", "@.gguf"}

\* descriptors as a caller of the exported functions may build them
SampleMetas ==
    { [ModelMetadata("/data/models/" \o f, f)
          EXCEPT !.Architecture = "llama", !.Name = n, !.SizeLabel = s, !.Finetune = t] :
        n \in SampleNames, s \in SampleSizeLabels, t \in SampleFinetunes,
        f \in SampleIdentityFiles }

InitIdentity ==
    /\ arg \in SampleMetas
    /\ rets = <<>>
    /\ disk = NoDisk
    /\ PipeIdle("idle", BaseEnv)

GenerateIdentity ==
    /\ Len(rets) < MaxApply
    /\ rets' = Append(rets, [id   |-> GenerateModelID(arg),
                             name |-> GenerateDisplayName(arg)])
    /\ UNCHANGED <<arg, disk, pipeVars>>

NextIdentity == GenerateIdentity

SpecIdentity == InitIdentity /\ [][NextIdentity]_vars

-----------------------------------------------------------------------------
(* SpecExtract: ExtractMetadata called on one path; disk is what the GGUF  *)
(* library finds in the file at that path.                                 *)

SamplePaths ==
    {"/data/models/llama-Q4_K_M.gguf", "/data/models/phi-2.gguf",
     "/data/models/model.GGUF", "/data/models/.gguf"}

\* a key left out, or present with one of the values
KeyOptions(key, values) == {NoMetadata} \cup {key :> v : v \in values}

\* llama files with each optional key missing, of the wrong type or present
OptionalKeyContents ==
    { [opens |-> TRUE,
       kv |-> ("general.architecture" :> Str("llama")) @@ n @@ s @@ f @@ c @@ m] :
        n \in KeyOptions("general.name", {Num(7), Str(""), Str("Phi Two")}),
        s \in KeyOptions("general.size_label", {Num(8), Str("8B")}),
        f \in KeyOptions("general.finetune", {Num(1), Str("Instruct")}),
        c \in KeyOptions("llama.context_length", {Str("8192"), Num(8192)}),
        m \in KeyOptions("llama.embedding_length", {Str("4096"), Num(4096)}) }

\* the sampled contents, files whose architecture key is present with the
\* empty string as its value or with a number, and the files above
ExtractContents ==
    SampleContents
    \cup { [opens |-> TRUE, kv |-> ("general.architecture" :> Str(""))],
           [opens |-> TRUE,
            kv |-> ("general.architecture" :> Str("") @@ "general.name" :> Str("ghost")
                    @@ ".context_length" :> Num(512))],
           [opens |-> TRUE,
            kv |-> ("general.architecture" :> Num(3) @@ "general.name" :> Str("typed"))] }
    \cup OptionalKeyContents

InitExtract ==
    /\ arg \in SamplePaths
    /\ rets = <<>>
    /\ disk \in ExtractContents
    /\ \E e \in SampleEnvs : PipeIdle("idle", e)

ExtractOne ==
    /\ rets = <<>>
    /\ rets' = <<ExtractMetadata(env.goos, arg, disk)>>
    /\ UNCHANGED <<arg, disk, pipeVars>>

NextExtract == ExtractOne

SpecExtract == InitExtract /\ [][NextExtract]_vars

-----------------------------------------------------------------------------
(* SpecLocate: FindLlamaServer called in one environment on one disk.      *)

\* what LLAMA_SERVER_PATH may hold on a platform: unset, absolute, relative
OverridePaths(goos) ==
    IF goos = "windows"
    THEN {"", "C:\\llama\\llama-server.exe", "bin\\llama-server.exe"}
    ELSE {"", "/opt/llama/llama-server", "bin/llama-server"}

\* a Linux user, a Linux service without HOME, a macOS user, a Windows user
LocatePlatforms ==
    { BaseEnv,
      [BaseEnv EXCEPT !.HOME = "", !.cwd = "/srv"],
      [BaseEnv EXCEPT !.goos = "darwin", !.HOME = "/Users/u", !.cwd = "/Users/u"],
      [BaseEnv EXCEPT !.goos = "windows", !.HOME = "", !.USERPROFILE = "C:\\Users\\u",
                      !.ProgramFiles = "C:\\Program Files", !.cwd = "C:\\Users\\u"] }

LocateEnvs ==
    UNION { { [p EXCEPT !.LLAMA_SERVER_PATH = o] : o \in OverridePaths(p.goos) } :
            p \in LocatePlatforms }

\* what exec.LookPath may answer on a platform: nothing, an absolute path, or
\* a path relative to the working directory
LookPathAnswers(goos) ==
    IF goos = "windows"
    THEN {"", "C:\\tools\\llama-server.exe"}
    ELSE {"", "/usr/bin/llama-server", "bin/llama-server"}

\* the paths that may exist on a platform's disk
CandidatePaths(goos) ==
    IF goos = "windows"
    THEN <<"C:\\llama\\llama-server.exe", "bin\\llama-server.exe",
           "C:\\Users\\u\\llama.cpp\\build\\bin\\llama-server.exe",
           "C:\\Users\\u\\bin\\llama-server.exe",
           "C:\\Program Files\\llama.cpp\\bin\\llama-server.exe">>
    ELSE IF goos = "darwin"
    THEN <<"/opt/llama/llama-server", "bin/llama-server",
           "/usr/local/bin/llama-server", "/opt/llama.cpp/bin/llama-server",
           "/Users/u/.local/bin/llama-server", "/opt/homebrew/bin/llama-server",
           "/usr/local/opt/llama.cpp/bin/llama-server">>
    ELSE <<"/opt/llama/llama-server", "bin/llama-server",
           "/usr/local/bin/llama-server", "/usr/bin/llama-server",
           "/opt/llama.cpp/bin/llama-server",
           "/home/u/llama.cpp/build/bin/llama-server", "/home/u/bin/llama-server">>

\* the disks on which at most MaxEntries of the candidate paths exist, each
\* as a file or as a directory
LocateKinds(goos) ==
    LET paths == {CandidatePaths(goos)[i] : i \in 1..Len(CandidatePaths(goos))}
    IN  UNION { [S -> {"file", "dir"}] :
                S \in {T \in SUBSET paths : Cardinality(T) <= MaxEntries} }

InitLocate ==
    /\ arg = ""
    /\ rets = <<>>
    /\ \E e \in LocateEnvs :
         /\ PipeIdle("idle", e)
         /\ \E lp \in LookPathAnswers(e.goos), k \in LocateKinds(e.goos) :
                disk = [lookPath |-> lp, kinds |-> k]

LocateServer ==
    /\ rets = <<>>
    /\ rets' = <<FindLlamaServer(env, disk)>>
    /\ UNCHANGED <<arg, disk, pipeVars>>

NextLocate == LocateServer

SpecLocate == InitLocate /\ [][NextLocate]_vars

-----------------------------------------------------------------------------
(* SpecCacheDir: GetCacheDirectory called in one environment.              *)

\* the supported platforms and one that is not
CachePlatforms == {"linux", "freebsd", "darwin", "windows", "plan9"}

\* LLAMA_CACHE: unset, without and with a trailing separator
CacheOverrides == {"", "/data/models", "/data/models/", "D:\\cache\\"}

CacheEnvs ==
    { [BaseEnv EXCEPT !.goos = g, !.LLAMA_CACHE = c, !.XDG_CACHE_HOME = x,
                      !.HOME = h, !.LOCALAPPDATA = l] :
        g \in CachePlatforms, c \in CacheOverrides, x \in {"", "/xdg"},
        h \in {"", "/home/u"}, l \in {"", "C:\\Users\\u\\AppData\\Local"} }

InitCacheDir ==
    /\ arg = ""
    /\ rets = <<>>
    /\ disk = NoDisk
    /\ \E e \in CacheEnvs : PipeIdle("idle", e)

ResolveCacheDir ==
    /\ rets = <<>>
    /\ rets' = <<GetCacheDirectory(env)>>
    /\ UNCHANGED <<arg, disk, pipeVars>>

NextCacheDir == ResolveCacheDir

SpecCacheDir == InitCacheDir /\ [][NextCacheDir]_vars

-----------------------------------------------------------------------------
(* GetCacheFile, cache.go, and SpecCacheFile: GetCacheFile called on one   *)
(* filename in one environment.  disk is the file system: kinds maps the   *)
(* paths that exist to "file" or "dir" (the root and a drive always        *)
(* exist), writable tells whether a directory can be created.              *)

\* the paths from the root down to the one made of elems, one per element
Prefixes(goos, rooted, elems) ==
    [k \in 1..Len(elems) |->
        (IF rooted THEN Separator(goos) ELSE "")
        \o Join(SubSeq(elems, 1, k), Separator(goos))]

\* os.MkdirAll's walk from prefix k on: an existing directory is kept, a file
\* in the way is an error, a missing directory is created when that is allowed
RECURSIVE MkdirFrom(_, _, _)
MkdirFrom(fs, prefixes, k) ==
    IF k > Len(prefixes) THEN [fs |-> fs, err |-> Nil]
    ELSE LET p == prefixes[k] IN
         IF HasSuffix(p, ":") \/ Stat(fs, p) = "dir"
         THEN MkdirFrom(fs, prefixes, k + 1)
         ELSE IF Stat(fs, p) = "file"
         THEN [fs |-> fs, err |-> Errorf("mkdir " \o p \o ": not a directory")]
         ELSE IF ~fs.writable
         THEN [fs |-> fs, err |-> Errorf("mkdir " \o p \o ": permission denied")]
         ELSE MkdirFrom([fs EXCEPT !.kinds = (p :> "dir") @@ @], prefixes, k + 1)

\* os.MkdirAll on a clean path
MkdirAll(goos, fs, path) ==
    LET rooted == path # "" /\ IsPathSeparator(goos, CharAt(path, 1))
        elems  == SelectSeq(SplitPath(goos, path), LAMBDA x : x # "")
    IN  MkdirFrom(fs, Prefixes(goos, rooted, elems), 1)

\* the result, the file system afterwards and the calls made on the way
GetCacheFile(e, fs, filename) ==
    LET g == e.goos
        c == GetCacheDirectory(e)
        cacheDir == Clean(g, c.path)
        m == MkdirAll(g, fs, cacheDir)
    IN  IF Base(g, filename) # filename
        THEN [path |-> "",
              err |-> Errorf("filename must not contain directory separators: "
                             \o filename),
              fs |-> fs, calls |-> <<>>]
        ELSE IF c.err # Nil
        THEN [path |-> "", err |-> c.err, fs |-> fs, calls |-> <<"GetCacheDirectory">>]
        ELSE IF m.err # Nil
        THEN [path |-> "",
              err |-> Errorf("failed to create cache directory: " \o ErrorText(m.err)),
              fs |-> m.fs, calls |-> <<"GetCacheDirectory", "MkdirAll">>]
        ELSE [path |-> JoinPath(g, <<cacheDir, filename>>), err |-> Nil,
              fs |-> m.fs, calls |-> <<"GetCacheDirectory", "MkdirAll">>]

\* an override on Linux and on Windows, the Linux default, and two
\* environments in which the cache directory cannot be resolved
CacheFileEnvs ==
    { [BaseEnv EXCEPT !.LLAMA_CACHE = "/data/models"],
      BaseEnv,
      [BaseEnv EXCEPT !.goos = "windows", !.HOME = "", !.LLAMA_CACHE = "D:\\cache\\llama"],
      [BaseEnv EXCEPT !.goos = "windows", !.HOME = ""],
      [BaseEnv EXCEPT !.goos = "plan9"] }

SampleCacheFileNames ==
    {"model.gguf", "config.json", "subdir/model.gguf", "subdir\\model.gguf",
     "models/", "/", "..", ""}

\* the directories on the way to a cache directory, each with its parent
DiskParents ==
    "/data" :> "" @@ "/data/models" :> "/data"
    @@ "/home/u" :> "" @@ "/home/u/.cache" :> "/home/u"
    @@ "/home/u/.cache/llama.cpp" :> "/home/u/.cache"
    @@ "D:\\cache" :> "" @@ "D:\\cache\\llama" :> "D:\\cache"

\* every disk on which what exists lies in an existing directory
CacheFileDisks ==
    LET kindsOf  == UNION { [S -> {"file", "dir"}] : S \in SUBSET (DOMAIN DiskParents) }
        sound(k) == \A p \in DOMAIN k :
                        DiskParents[p] # "" =>
                            /\ DiskParents[p] \in DOMAIN k
                            /\ k[DiskParents[p]] = "dir"
    IN  { [kinds |-> k, writable |-> w] : k \in {x \in kindsOf : sound(x)},
                                          w \in BOOLEAN }

\* arg keeps the filename and the disk as it was when the call was made
InitCacheFile ==
    /\ \E f \in SampleCacheFileNames, d \in CacheFileDisks :
         /\ arg = [filename |-> f, before |-> d]
         /\ disk = d
    /\ rets = <<>>
    /\ \E e \in CacheFileEnvs : PipeIdle("idle", e)

ResolveCacheFile ==
    /\ rets = <<>>
    /\ LET r == GetCacheFile(env, disk, arg.filename)
       IN  /\ rets' = <<[path |-> r.path, err |-> r.err]>>
           /\ disk' = r.fs
           /\ calls' = r.calls
    /\ UNCHANGED <<arg, pc, env, loaded, ggufFiles, scanErr, idx, models, failedFiles,
                   outcomes, discovered, located, usedIDs, cfg, ids, ret>>

NextCacheFile == ResolveCacheFile

SpecCacheFile == InitCacheFile /\ [][NextCacheFile]_vars

-----------------------------------------------------------------------------
(* SpecScan: ScanCacheForGGUF called in one environment; disk is what the  *)
(* file system holds at the cache path, arg the same as it was when the    *)
(* call was made.                                                          *)

\* an override, the macOS default, the Windows default, and a Windows
\* environment in which the cache directory cannot be resolved
ScanEnvs ==
    { [BaseEnv EXCEPT !.LLAMA_CACHE = "/data/models/"],
      [BaseEnv EXCEPT !.goos = "darwin", !.HOME = "/Users/u"],
      [BaseEnv EXCEPT !.goos = "windows", !.HOME = "",
                      !.LOCALAPPDATA = "C:\\Users\\u\\AppData\\Local"],
      [BaseEnv EXCEPT !.goos = "windows", !.HOME = ""] }

\* entries of every sort, in os.ReadDir's order (by name): the extension in
\* three spellings, other extensions, .gguf before a further extension, and
\* a subdirectory named like a model
ScanEntryPool ==
    << [name |-> "B.GgUf", isDir |-> FALSE],
       [name |-> "README.md", isDir |-> FALSE],
       [name |-> "a.gguf", isDir |-> FALSE],
       [name |-> "a.gguf.bak", isDir |-> FALSE],
       [name |-> "model.GGUF", isDir |-> FALSE],
       [name |-> "sub.gguf", isDir |-> TRUE],
       [name |-> "weights.bin", isDir |-> FALSE] >>

ScanDirs ==
    { [kind |-> k, readable |-> FALSE, entries |-> <<>>] :
        k \in {"missing", "denied", "file", "dir"} }
    \cup { [kind |-> "dir", readable |-> TRUE, entries |-> Pick(ScanEntryPool, S)] :
             S \in SUBSET (1..Len(ScanEntryPool)) }

InitScan ==
    /\ \E d \in ScanDirs : arg = d /\ disk = d
    /\ rets = <<>>
    /\ \E e \in ScanEnvs : PipeIdle("idle", e)

ScanCache ==
    /\ rets = <<>>
    /\ rets' = <<ScanCacheForGGUF(env, disk)>>
    /\ UNCHANGED <<arg, disk, pipeVars>>

NextScan == ScanCache

SpecScan == InitScan /\ [][NextScan]_vars

-----------------------------------------------------------------------------
(* SpecModelConfig: generateModelConfig called on a descriptor and a       *)
(* server path.                                                            *)

\* context lengths: absent or zero, negative, and two real ones
SampleContextLengths == {0 - 1, 0, 1, 2048}

SampleServerPaths == {"", "/usr/bin/llama-server", "C:\\Program Files\\llama.cpp\\llama-server.exe"}

SampleModelFiles == {"/data/models/phi-2.gguf", "/data/my models/llama-Q4_K_M.gguf"}

SampleConfigMetas ==
    { [ModelMetadata(p, Base("linux", p))
          EXCEPT !.Architecture = "llama", !.Name = n, !.SizeLabel = s,
                 !.ContextLength = c] :
        p \in SampleModelFiles, n \in {"", "Phi Two"}, s \in {"", "8B"},
        c \in SampleContextLengths }

InitModelConfig ==
    /\ \E m \in SampleConfigMetas, p \in SampleServerPaths :
           arg = [meta |-> m, serverPath |-> p]
    /\ rets = <<>>
    /\ disk = NoDisk
    /\ PipeIdle("idle", BaseEnv)

GenerateModelConfig ==
    /\ rets = <<>>
    /\ rets' = <<generateModelConfig(arg.meta, arg.serverPath)>>
    /\ UNCHANGED <<arg, disk, pipeVars>>

NextModelConfig == GenerateModelConfig

SpecModelConfig == InitModelConfig /\ [][NextModelConfig]_vars

-----------------------------------------------------------------------------
(* SpecTrailing: ensureTrailingSlash applied to a path, then applied again *)
(* to its own result.                                                      *)

\* empty, bare separators, with and without a trailing separator of either
\* kind, doubled separators
SampleRawPaths ==
    {"", "/", "\\", "a", "a/", "a\\", "/data/models", "/data/models/",
     "/data/models//", "C:\\cache", "C:\\cache\\", "C:\\cache/", "C:/cache",
     "/mixed\\", "dir/sub", "."}

TrailingPlatforms == {"linux", "darwin", "windows"}

InitTrailing ==
    /\ arg \in SampleRawPaths
    /\ rets = <<>>
    /\ disk = NoDisk
    /\ \E g \in TrailingPlatforms : PipeIdle("idle", [BaseEnv EXCEPT !.goos = g])

EnsureTrailing ==
    /\ Len(rets) < MaxApply
    /\ rets' = Append(rets,
                 ensureTrailingSlash(env.goos, IF rets = <<>> THEN arg ELSE rets[Len(rets)]))
    /\ UNCHANGED <<arg, disk, pipeVars>>

NextTrailing == EnsureTrailing

SpecTrailing == InitTrailing /\ [][NextTrailing]_vars

-----------------------------------------------------------------------------
(* Properties of the run, under Spec.                                      *)

InCalls(f) == \E i \in 1..Len(calls) : calls[i] = f

\* DiscoverModels has returned
DiscoverReturned ==
    pc \in {"discovered", "FindLlamaServer", "generateConfig", "generateLoop", "done"}
    /\ InCalls("DiscoverModels")

\* generateConfig is running or has returned
Generating == pc \in {"generateLoop", "done"} /\ InCalls("generateConfig")

\* C1: the IDs generateConfig assigns to its descriptors are pairwise
\* distinct, so Models holds one entry per descriptor and none is overwritten.
C1_IDsUnique ==
    Generating =>
        /\ \A i, j \in 1..Len(ids) : i # j => ids[i] # ids[j]
        /\ Cardinality(DOMAIN cfg.Models) = Len(ids)

\* how many of the first i descriptors have the base ID of descriptor i
Occurrence(i) ==
    Cardinality({j \in 1..i : GenerateModelID(models[j]) = GenerateModelID(models[i])})

\* C2: in input order, the first descriptor with a given base ID gets the bare
\* base ID and the k-th (k >= 2) gets <base>-(k-1), without gaps.
C2_SuffixesInOrder ==
    Generating =>
        \A i \in 1..Len(ids) :
            ids[i] = IF Occurrence(i) = 1
                     THEN GenerateModelID(models[i])
                     ELSE GenerateModelID(models[i]) \o "-" \o Itoa(Occurrence(i) - 1)

\* three descriptors with one base ID went through generateConfig
C2_Witness ==
    /\ pc = "done"
    /\ ret.err = Nil
    /\ \E i \in 1..Len(ids) : Occurrence(i) = 3

StageOrder == <<"DiscoverModels", "DeduplicateModels", "FindLlamaServer", "generateConfig">>

\* the stages of AutoDiscoverConfig called so far, in call order
StageCalls ==
    SelectSeq(calls, LAMBDA f : \E i \in 1..Len(StageOrder) : StageOrder[i] = f)

GuidanceText == " (set LLAMA_SERVER_PATH environment variable or ensure llama-server is in PATH)"

\* C3: AutoDiscoverConfig runs discovery, the empty check, deduplication, the
\* binary locator and generateConfig in that order, each at most once; the
\* locator runs only after discovery returned at least one descriptor,
\* generateConfig only after the locator succeeded and on the deduplicated
\* descriptors; an empty discovery ends the run with "no GGUF models found",
\* and the first failing stage ends it with a wrapped error and an empty config.
C3_StagesInOrder ==
    /\ StageCalls = SubSeq(StageOrder, 1, Len(StageCalls))
    /\ InCalls("FindLlamaServer") =>
           discovered.err = Nil /\ Len(discovered.models) >= 1
    /\ InCalls("generateConfig") =>
           /\ located.err = Nil
           /\ models = DeduplicateModels(discovered.models)
    /\ (pc = "done" /\ InCalls("AutoDiscoverConfig") /\ ret.err = Nil) =>
           /\ StageCalls = StageOrder
           /\ ret.cfg = cfg
    /\ (pc = "done" /\ InCalls("AutoDiscoverConfig") /\ ret.err # Nil) =>
           /\ ret.cfg = ZeroConfig
           /\ \/ /\ discovered.err # Nil
                 /\ StageCalls = <<"DiscoverModels">>
                 /\ ErrorText(ret.err) =
                        "failed to discover models: " \o ErrorText(discovered.err)
              \/ /\ discovered.err = Nil
                 /\ Len(discovered.models) = 0
                 /\ StageCalls = <<"DiscoverModels">>
                 /\ HasPrefix(ErrorText(ret.err), "no GGUF models found")
              \/ /\ located.err # Nil
                 /\ StageCalls = SubSeq(StageOrder, 1, 3)
                 /\ ErrorText(ret.err) =
                        "failed to find llama-server: " \o ErrorText(located.err)
                        \o GuidanceText

\* a run that went through every stage, deduplication having dropped a file
C3_Witness ==
    /\ pc = "done"
    /\ ret.err = Nil
    /\ StageCalls = StageOrder
    /\ Len(models) < Len(discovered.models)

\* AutoDiscoverConfig is being called or was called
DiscoveryInvoked == pc = "AutoDiscoverConfig" \/ InCalls("AutoDiscoverConfig")

\* C4: LoadConfigOrDiscover invokes auto-discovery exactly when the file does
\* not exist or loads with zero models; a config with a model is returned
\* unchanged, any other load error is returned, both without discovery.
C4_DiscoverOnlyWithoutConfig ==
    (calls # <<>> /\ calls[1] = "LoadConfig") =>
        /\ DiscoveryInvoked <=>
               \/ IsNotExist(loaded.err)
               \/ loaded.err = Nil /\ DOMAIN loaded.cfg.Models = {}
        /\ (loaded.err = Nil /\ DOMAIN loaded.cfg.Models # {}) =>
               pc = "done" /\ ret = [cfg |-> loaded.cfg, err |-> Nil]
        /\ (loaded.err # Nil /\ ~IsNotExist(loaded.err)) =>
               pc = "done" /\ ret.err = loaded.err

\* a config without models was loaded and discovery ran to the end
C4_Witness ==
    /\ calls # <<>> /\ calls[1] = "LoadConfig"
    /\ loaded.err = Nil
    /\ pc = "done"
    /\ InCalls("generateConfig")

\* the descriptors of the extractions that succeeded, in scan order
Extracted ==
    LET ok == SelectSeq(outcomes, LAMBDA r : r.err = Nil)
    IN  [i \in 1..Len(ok) |-> ok[i].meta]

\* C5: when at least one file extracts, DiscoverModels returns no error and
\* exactly the descriptors of the files that extracted, in scan order; every
\* file is processed whatever happened to the files before it.
C5_ToleratesFailedFiles ==
    (DiscoverReturned /\ Len(ggufFiles) > 0) =>
        /\ Len(outcomes) = Len(ggufFiles)
        /\ \A i \in 1..Len(outcomes) :
               outcomes[i].err = Nil => outcomes[i].meta.FilePath = ggufFiles[i]
        /\ (\E i \in 1..Len(outcomes) : outcomes[i].err = Nil) =>
               /\ discovered.err = Nil
               /\ discovered.models = Extracted

\* a failed file, then a good one, then a failed one
C5_Witness ==
    /\ DiscoverReturned
    /\ Len(outcomes) >= 3
    /\ outcomes[1].err # Nil
    /\ outcomes[2].err = Nil
    /\ outcomes[3].err # Nil

AllFailed ==
    Len(ggufFiles) > 0 /\ \A i \in 1..Len(outcomes) : outcomes[i].err # Nil

\* "name: message" of every scanned file, in scan order
FailureLines ==
    [i \in 1..Len(outcomes) |->
        Base(env.goos, ggufFiles[i]) \o ": " \o ErrorText(outcomes[i].err)]

\* C6: DiscoverModels fails exactly when the scan fails or every scanned file
\* fails to extract; then its one error lists every file's base name and
\* message, joined by "; " in scan order; an empty scan gives an empty list
\* and no error.
C6_FailsOnlyWhenAllFail ==
    DiscoverReturned =>
        /\ discovered.err # Nil <=> (scanErr # Nil \/ AllFailed)
        /\ scanErr # Nil => discovered.err = scanErr
        /\ (scanErr = Nil /\ AllFailed) =>
               ErrorText(discovered.err) =
                   "failed to parse any GGUF files: " \o Join(FailureLines, "; ")
        /\ (scanErr = Nil /\ Len(ggufFiles) = 0) =>
               discovered = [models |-> <<>>, err |-> Nil]

\* three scanned files, none of which extracts, for two different reasons
C6_Witness ==
    /\ DiscoverReturned
    /\ AllFailed
    /\ Len(outcomes) >= 3
    /\ outcomes[1].err # outcomes[2].err

\* the descriptors of list that are the first with their base identity key
FirstPerKey(list) ==
    LET first(i) == \A j \in 1..(i - 1) : BaseKey(list[j]) # BaseKey(list[i])
        F[i \in 0..Len(list)] ==
            IF i = 0 THEN <<>>
            ELSE IF first(i) THEN Append(F[i - 1], list[i]) ELSE F[i - 1]
    IN  F[Len(list)]

\* C7: what DeduplicateModels returns (the run is then about to call
\* FindLlamaServer) is, in the original order, exactly the first descriptor of
\* each base identity key; the survivors' keys are pairwise distinct and every
\* key of the input survives.
C7_KeepsFirstPerKey ==
    pc = "FindLlamaServer" =>
        /\ models = FirstPerKey(discovered.models)
        /\ \A i, j \in 1..Len(models) :
               i # j => BaseKey(models[i]) # BaseKey(models[j])
        /\ \A i \in 1..Len(discovered.models) :
               \E j \in 1..Len(models) :
                   BaseKey(models[j]) = BaseKey(discovered.models[i])

\* two quantizations of one model and another model were deduplicated
C7_Witness ==
    /\ pc = "FindLlamaServer"
    /\ Len(discovered.models) >= 3
    /\ Len(models) = Len(discovered.models) - 1
    /\ BaseKey(discovered.models[1]) = BaseKey(discovered.models[2])

-----------------------------------------------------------------------------
(* Properties of inferNameFromFilename, under SpecInfer.                   *)

\* gguf.go:61, the scanner's test of an entry name
ScannerAccepts(name) == HasSuffix(ToLower(name), ".gguf")

EndsInQuantToken(s) ==
    \E i \in 1..Len(quantPatterns) : HasSuffix(s, quantPatterns[i])

\* the name with the one recognized token at its end removed, if there is one
StripLastToken(name) ==
    IF EndsInQuantToken(name)
    THEN TrimSuffix(name,
           quantPatterns[CHOOSE i \in 1..Len(quantPatterns) :
                             HasSuffix(name, quantPatterns[i])])
    ELSE name

\* C8: once the extension is removed, inferNameFromFilename removes only the
\* last recognized quantization token at the end of the name and leaves every
\* earlier token untouched, whatever the order of two tokens at the end.
C8_StripsOnlyLastToken ==
    Len(rets) >= 1 => rets[1] = StripLastToken(StripExtension(arg))

NoRecognizedSuffix(s) ==
    /\ ~HasSuffix(ToLower(s), ".gguf")
    /\ ~EndsInQuantToken(s)

\* C9: when f(x) ends in neither the extension nor a recognized token,
\* applying inferNameFromFilename to it again changes nothing: f(f(x)) = f(x).
C9_IdempotentOnceStripped ==
    (Len(rets) >= 2 /\ NoRecognizedSuffix(rets[1])) => rets[2] = rets[1]

\* a filename that lost a suffix, was left without any, and was inferred again
C9_Witness ==
    /\ Len(rets) >= 2
    /\ NoRecognizedSuffix(rets[1])
    /\ rets[1] # arg

\* C10: for every filename the scanner accepts (any letter case of .gguf),
\* the inferred name no longer ends in the extension.
C10_ExtensionStrippedAnyCase ==
    (Len(rets) >= 1 /\ ScannerAccepts(arg)) => ~HasSuffix(ToLower(rets[1]), ".gguf")

-----------------------------------------------------------------------------
(* Properties of GenerateModelID and GenerateDisplayName, under            *)
(* SpecIdentity.                                                           *)

\* s matches [a-z0-9-.]+
MatchesIDPattern(s) ==
    /\ s # ""
    /\ \A i \in 1..Len(s) : CharAt(s, i) \in IDCharSet

\* C11: GenerateModelID returns the same string every time it is called on a
\* descriptor, and that string matches [a-z0-9-.]+: it is not empty and holds
\* only lower-case letters, digits, hyphens and periods.
C11_IDMatchesPattern ==
    \A i \in 1..Len(rets) :
        /\ rets[i].id = rets[1].id
        /\ MatchesIDPattern(rets[i].id)

\* what one character of the joined components leaves in the ID
SlugChar(c) ==
    LET l == LowerChar(c)
    IN  IF l = " " \/ l = "_" THEN "-"
        ELSE IF l \in IDCharSet THEN l
        ELSE ""

\* text as an ID: lower-cased, blanks and underscores as hyphens, other
\* characters dropped, runs of hyphens as one, no hyphen at either end
Slug(text) ==
    LET F[i \in 0..Len(text)] ==
            IF i = 0 THEN "" ELSE F[i - 1] \o SlugChar(CharAt(text, i))
    IN  Trim(CollapseHyphens(F[Len(text)]), "-")

\* Name, SizeLabel and Finetune are all empty
AllEmpty(meta) == meta.Name = "" /\ meta.SizeLabel = "" /\ meta.Finetune = ""

\* C12 as stated: with Name, SizeLabel and Finetune all empty the ID is built
\* from inferNameFromFilename(FileName), extension and quantization token
\* stripped, the same base the display name is built from.
C12_FallbackUsesInferredName ==
    (rets # <<>> /\ AllEmpty(arg)) =>
        /\ rets[1].id = Slug(inferNameFromFilename(arg.FileName))
        /\ rets[1].name = inferNameFromFilename(arg.FileName)

\* C12, amended: with Name, SizeLabel and Finetune all empty the ID is built
\* from FileName with only the extension (.gguf or .GGUF) stripped, so a
\* quantization token stays in the ID, while the display name is
\* inferNameFromFilename(FileName), which drops it.
C12_FallbackKeepsQuantToken ==
    (rets # <<>> /\ AllEmpty(arg)) =>
        /\ rets[1].id = Slug(StripExtension(arg.FileName))
        /\ rets[1].name = inferNameFromFilename(arg.FileName)

\* the fallback taken on custom-model-Q4_K_M.gguf
C12_Witness ==
    /\ rets # <<>>
    /\ AllEmpty(arg)
    /\ arg.FileName = "custom-model-Q4_K_M.gguf"
    /\ rets[1].id = "custom-model-q4-k-m"
    /\ rets[1].name = "custom-model"

-----------------------------------------------------------------------------
(* Properties of ExtractMetadata, under SpecExtract.                       *)

\* C13: every descriptor ExtractMetadata returns has a non-empty
\* Architecture, whatever the file holds under general.architecture, the
\* empty string included.
C13_ArchitectureNonEmpty ==
    (rets # <<>> /\ rets[1].err = Nil) => rets[1].meta.Architecture # ""

-----------------------------------------------------------------------------
(* Properties of FindLlamaServer, under SpecLocate.                        *)

\* the absolute form of a clean path: itself, or below the working directory
AbsForm(e, path) ==
    IF IsAbs(e.goos, path) THEN path ELSE e.cwd \o Separator(e.goos) \o path

BinaryName(e) == IF e.goos = "windows" THEN "llama-server.exe" ELSE "llama-server"

\* where the binary would be at the i-th common location
CommonCandidate(e, i) ==
    getCommonServerLocations(e)[i] \o Separator(e.goos) \o BinaryName(e)

\* the common locations that hold the binary as a non-directory
CommonHits ==
    {i \in 1..Len(getCommonServerLocations(env)) :
        Stat(disk, CommonCandidate(env, i)) = "file"}

\* C14: a non-empty LLAMA_SERVER_PATH decides the outcome alone: its absolute
\* form when it exists and is not a directory, a "file not found" error when
\* it does not exist, a "points to a directory" error when it is a directory,
\* whatever PATH and the common locations hold.
C14_OverrideDecides ==
    (rets # <<>> /\ env.LLAMA_SERVER_PATH # "") =>
        LET o == env.LLAMA_SERVER_PATH IN
        /\ Stat(disk, o) = "file" =>
               rets[1] = [path |-> AbsForm(env, o), err |-> Nil]
        /\ Stat(disk, o) = "missing" =>
               rets[1] = [path |-> "",
                          err |-> Errorf("LLAMA_SERVER_PATH file not found: " \o o)]
        /\ Stat(disk, o) = "dir" =>
               rets[1] = [path |-> "",
                          err |-> Errorf("LLAMA_SERVER_PATH points to a directory: " \o o)]

\* the override names a missing file while PATH and a common location both
\* hold the binary, and the call failed
C14_Witness ==
    /\ rets # <<>>
    /\ env.LLAMA_SERVER_PATH # ""
    /\ Stat(disk, env.LLAMA_SERVER_PATH) = "missing"
    /\ disk.lookPath # ""
    /\ CommonHits # {}
    /\ rets[1].err # Nil

\* the least element of a non-empty set of numbers
Least(S) == CHOOSE i \in S : \A j \in S : i <= j

\* C15: without override a PATH hit wins over every common location;
\* otherwise the first common location, in list order, that holds the binary
\* as a non-directory is returned; when every tier misses, the call fails
\* with the one error naming PATH and the common locations.
C15_FirstTierWins ==
    (rets # <<>> /\ env.LLAMA_SERVER_PATH = "") =>
        IF disk.lookPath # ""
        THEN rets[1] = [path |-> AbsForm(env, disk.lookPath), err |-> Nil]
        ELSE IF CommonHits # {}
        THEN rets[1] = [path |-> CommonCandidate(env, Least(CommonHits)), err |-> Nil]
        ELSE rets[1] =
                 [path |-> "",
                  err |-> Errorf("llama-server not found (checked PATH and common locations)")]

\* no PATH hit, a directory of the binary's name at one common location and
\* the binary itself at a later one, which was returned
C15_Witness ==
    /\ rets # <<>>
    /\ env.LLAMA_SERVER_PATH = ""
    /\ disk.lookPath = ""
    /\ CommonHits # {}
    /\ \E i \in 1..Len(getCommonServerLocations(env)) :
           /\ i < Least(CommonHits)
           /\ Stat(disk, CommonCandidate(env, i)) = "dir"
    /\ rets[1].err = Nil
    /\ rets[1].path = CommonCandidate(env, Least(CommonHits))

-----------------------------------------------------------------------------
(* Properties of GetCacheDirectory, under SpecCacheDir.                    *)

EndsWithSeparator(goos, path) ==
    path # "" /\ IsPathSeparator(goos, CharAt(path, Len(path)))

\* C16: a non-empty LLAMA_CACHE is returned with a trailing separator on
\* every platform, whatever the other variables hold; on Unix-likes without
\* it XDG_CACHE_HOME wins over $HOME/.cache, which wins over the lookup of
\* the home directory; every path returned without error ends in a separator.
C16_OverrideThenPlatform ==
    rets # <<>> =>
        LET g == env.goos
            r == rets[1]
        IN  /\ env.LLAMA_CACHE # "" =>
                   /\ r.err = Nil
                   /\ r.path = IF EndsWithSeparator(g, env.LLAMA_CACHE)
                               THEN env.LLAMA_CACHE
                               ELSE env.LLAMA_CACHE \o Separator(g)
            /\ (env.LLAMA_CACHE = "" /\ g \in UnixLike) =>
                   IF env.XDG_CACHE_HOME # ""
                   THEN r = [path |-> env.XDG_CACHE_HOME \o "/llama.cpp/", err |-> Nil]
                   ELSE IF env.HOME # ""
                   THEN r = [path |-> env.HOME \o "/.cache/llama.cpp/", err |-> Nil]
                   ELSE /\ r.err # Nil
                        /\ HasPrefix(ErrorText(r.err), "failed to find HOME directory")
            /\ r.err = Nil => EndsWithSeparator(g, r.path)
            /\ r.err # Nil => r.path = ""

\* an unsupported platform whose LLAMA_CACHE, XDG_CACHE_HOME and HOME are all
\* set: the override came back, a separator added
C16_Witness ==
    /\ rets # <<>>
    /\ env.goos = "plan9"
    /\ env.LLAMA_CACHE = "/data/models"
    /\ env.XDG_CACHE_HOME # ""
    /\ env.HOME # ""
    /\ rets[1] = [path |-> "/data/models/", err |-> Nil]

-----------------------------------------------------------------------------
(* Properties of GetCacheFile, under SpecCacheFile.                        *)

ContainsSeparator(goos, name) ==
    \E i \in 1..Len(name) : IsPathSeparator(goos, CharAt(name, i))

\* the cache directory resolves and exists, or can be created, on arg.before
CacheDirAvailable ==
    /\ GetCacheDirectory(env).err = Nil
    /\ MkdirAll(env.goos, arg.before, Clean(env.goos, GetCacheDirectory(env).path)).err = Nil

\* C17: a filename equal to its own base name resolves, where the cache
\* directory is available, to the cache directory joined with the name; a
\* name containing a path separator fails before the cache directory is
\* resolved or created, and the file system is left as it was.
C17_SeparatorsRejectedUntouched ==
    rets # <<>> =>
        LET g == env.goos
            f == arg.filename
        IN  /\ (Base(g, f) = f /\ ~ContainsSeparator(g, f) /\ CacheDirAvailable) =>
                   /\ rets[1].err = Nil
                   /\ rets[1].path =
                          JoinPath(g, <<Clean(g, GetCacheDirectory(env).path), f>>)
            /\ ContainsSeparator(g, f) =>
                   /\ rets[1].err # Nil
                   /\ rets[1].path = ""
                   /\ calls = <<>>
                   /\ disk = arg.before

-----------------------------------------------------------------------------
(* Properties of ScanCacheForGGUF, under SpecScan.                         *)

\* the last five characters of name spell .gguf in some letter case
HasGGUFExtension(name) ==
    /\ Len(name) >= 5
    /\ ToLower(SubSeq(name, Len(name) - 4, Len(name))) = ".gguf"

\* the entries of the directory that are model files, by index
MatchingEntries ==
    {i \in 1..Len(disk.entries) :
        ~disk.entries[i].isDir /\ HasGGUFExtension(disk.entries[i].name)}

\* the cache path resolves and holds a directory that can be listed
Listable ==
    GetCacheDirectory(env).err = Nil /\ disk.kind = "dir" /\ disk.readable

\* the cache path without its trailing separator, a separator, the name
PathInCache(name) ==
    LET c == GetCacheDirectory(env).path
    IN  SubSeq(c, 1, Len(c) - 1) \o Separator(env.goos) \o name

\* C18: scanning an existing cache directory returns, in directory order,
\* one path (cache directory joined with the name) for each non-directory
\* entry whose name ends in .gguf in any letter case and nothing else: N
\* paths for N such entries; the directory is left as it was.
C18_ExactlyMatchingFiles ==
    (rets # <<>> /\ Listable) =>
        LET matching == Pick(disk.entries, MatchingEntries) IN
        /\ rets[1].err = Nil
        /\ Len(rets[1].files) = Cardinality(MatchingEntries)
        /\ rets[1].files = [k \in 1..Len(matching) |-> PathInCache(matching[k].name)]
        /\ disk = arg

\* three model files in three spellings next to a backup of one, another
\* extension and a subdirectory named like a model: three paths came back
C18_Witness ==
    /\ rets # <<>>
    /\ Listable
    /\ Cardinality(MatchingEntries) = 3
    /\ \E i, j, k \in 1..Len(disk.entries) :
           /\ disk.entries[i].name = "a.gguf.bak"
           /\ disk.entries[j].isDir
           /\ disk.entries[k].name = "B.GgUf"
    /\ Len(rets[1].files) = 3

Contains(s, sub) ==
    \E i \in 1..(Len(s) - Len(sub) + 1) : SubSeq(s, i, i + Len(sub) - 1) = sub

\* C19: a cache directory that does not exist gives an empty sequence and no
\* error; a cache path that is a regular file gives an error containing "not
\* a directory"; another failure of os.Stat or os.ReadDir gives an error; no
\* error comes with paths.
C19_MissingIsEmptyFileIsError ==
    rets # <<>> =>
        /\ GetCacheDirectory(env).err = Nil =>
               /\ disk.kind = "missing" => rets[1] = [files |-> <<>>, err |-> Nil]
               /\ disk.kind = "file" =>
                      /\ rets[1].err # Nil
                      /\ Contains(ErrorText(rets[1].err), "not a directory")
               /\ (disk.kind = "denied" \/ (disk.kind = "dir" /\ ~disk.readable)) =>
                      rets[1].err # Nil
        /\ rets[1].err # Nil => rets[1].files = <<>>

\* the cache directory was missing and the scan returned nothing, no error
C19_Witness ==
    /\ rets # <<>>
    /\ GetCacheDirectory(env).err = Nil
    /\ disk.kind = "missing"
    /\ rets[1] = [files |-> <<>>, err |-> Nil]

-----------------------------------------------------------------------------
(* Properties of generateModelConfig, under SpecModelConfig.               *)

\* the decimal numerals of the sampled positive context lengths
ContextNumeral == (1 :> "1") @@ (2048 :> "2048")

\* C20: for a non-empty server path the command line is the server path, the
\* model file path after --model and the placeholder ${PORT} after --port,
\* followed by --ctx-size and the context length exactly when the context
\* length is positive; an empty server path gives an error and no model entry.
C20_CommandLine ==
    rets # <<>> =>
        LET m == arg.meta
            r == rets[1]
        IN  /\ arg.serverPath # "" =>
                   /\ r.err = Nil
                   /\ r.config.Cmd =
                          arg.serverPath \o " --model " \o m.FilePath \o " --port ${PORT}"
                          \o (IF m.ContextLength > 0
                              THEN " --ctx-size " \o ContextNumeral[m.ContextLength]
                              ELSE "")
                   /\ Contains(r.config.Cmd, "--ctx-size") <=> m.ContextLength > 0
            /\ arg.serverPath = "" =>
                   /\ r.err # Nil
                   /\ r.config = [Cmd |-> "", Name |-> "", Description |-> ""]

\* a negative context length, a real server path, a command without the flag
C20_Witness ==
    /\ rets # <<>>
    /\ arg.serverPath # ""
    /\ arg.meta.ContextLength < 0
    /\ rets[1].err = Nil
    /\ ~Contains(rets[1].config.Cmd, "--ctx-size")

-----------------------------------------------------------------------------
(* Properties of ensureTrailingSlash, under SpecTrailing.                  *)

\* C21: ensureTrailingSlash applied to its own result changes nothing; the
\* empty string maps to itself, and a path that already ends in a separator
\* of the platform is returned unchanged.
C21_TrailingIdempotent ==
    /\ Len(rets) >= 2 => rets[2] = rets[1]
    /\ (rets # <<>> /\ arg = "") => rets[1] = ""
    /\ (rets # <<>> /\ EndsWithSeparator(env.goos, arg)) => rets[1] = arg

\* a path that gained a separator the first time and kept it the second
C21_Witness ==
    /\ Len(rets) >= 2
    /\ rets[1] # arg
    /\ rets[1] = arg \o Separator(env.goos)
    /\ rets[2] = rets[1]

-----------------------------------------------------------------------------
(* Further properties of ExtractMetadata, under SpecExtract.               *)

\* the file holds key with a value of type typ
Holds(key, typ) == key \in DOMAIN disk.kv /\ disk.kv[key].typ = typ

\* the string under key, "" when the file holds none
StringOrEmpty(key) == IF Holds(key, "string") THEN disk.kv[key].val ELSE ""

\* the integer under key, 0 when the file holds none
IntOrZero(key) == IF Holds(key, "int") THEN disk.kv[key].val ELSE 0

\* the last element of arg, the path handed to ExtractMetadata
ArgFileName ==
    LET slashes == {i \in 1..Len(arg) : IsPathSeparator(env.goos, CharAt(arg, i))}
        last    == IF slashes = {} THEN 0
                   ELSE CHOOSE i \in slashes : \A j \in slashes : j <= i
    IN  SubSeq(arg, last + 1, Len(arg))

\* C22: ExtractMetadata fails exactly when the file cannot be opened or the
\* lookup of general.architecture fails; whatever optional keys are missing
\* or of the wrong type, it succeeds with an empty string for each string
\* that is not available and zero for each number, except that an empty Name
\* is replaced by inferNameFromFilename(FileName).
C22_OnlyArchitectureMandatory ==
    rets # <<>> =>
        LET r    == rets[1]
            arch == StringOrEmpty("general.architecture")
        IN  /\ r.err # Nil <=>
                   (~disk.opens \/ ~Holds("general.architecture", "string"))
            /\ r.err = Nil =>
                   /\ r.meta.FilePath = arg
                   /\ r.meta.FileName = ArgFileName
                   /\ r.meta.Architecture = arch
                   /\ r.meta.SizeLabel = StringOrEmpty("general.size_label")
                   /\ r.meta.Finetune = StringOrEmpty("general.finetune")
                   /\ r.meta.ContextLength = IntOrZero(arch \o ".context_length")
                   /\ r.meta.EmbeddingLength = IntOrZero(arch \o ".embedding_length")
                   /\ r.meta.Name =
                          IF StringOrEmpty("general.name") # ""
                          THEN StringOrEmpty("general.name")
                          ELSE inferNameFromFilename(ArgFileName)

\* a file with its architecture and all five optional keys of the wrong
\* type: the extraction succeeded, the name inferred from the filename
C22_Witness ==
    /\ rets # <<>>
    /\ disk.opens
    /\ Holds("general.architecture", "string")
    /\ Holds("general.name", "int")
    /\ Holds("general.size_label", "int")
    /\ Holds("general.finetune", "int")
    /\ Holds("llama.context_length", "string")
    /\ Holds("llama.embedding_length", "string")
    /\ rets[1].err = Nil
    /\ rets[1].meta.ContextLength = 0
    /\ rets[1].meta.Name = "phi-2"

-----------------------------------------------------------------------------
(* Further properties of GetCacheFile, under SpecCacheFile.                *)

\* the directory a clean path lies in: the path without its last element
ParentDir(goos, path) ==
    LET seps == {i \in 1..Len(path) : IsPathSeparator(goos, CharAt(path, i))}
        last == IF seps = {} THEN 0
                ELSE CHOOSE i \in seps : \A j \in seps : j <= i
    IN  IF last = 0 THEN "."
        ELSE IF last = 1 THEN Separator(goos)
        ELSE SubSeq(path, 1, last - 1)

\* the cache directory GetCacheFile resolved, without trailing separator
ResolvedCacheDir == Clean(env.goos, GetCacheDirectory(env).path)

\* C23: whenever GetCacheFile succeeds, the returned path is an entry inside
\* the resolved cache directory: its parent directory is the cache directory,
\* also for the names "." and "..".
C23_StaysInsideCache ==
    (rets # <<>> /\ rets[1].err = Nil) =>
        /\ ParentDir(env.goos, rets[1].path) = ResolvedCacheDir
        /\ rets[1].path # ResolvedCacheDir

====
